---- MODULE Spec2Model ----
(***************************************************************************)
(* A model of drivers/char/tpm/tpm_nopci.c: the transaction engine         *)
(* (tpm_transmit), the buffered write/read hand-off of one chip with its   *)
(* expiry timer (tpm_open, tpm_release, tpm_write, tpm_read,               *)
(* user_reader_timeout), and the device registry with its device-number    *)
(* bitmap (tpm_register_hardware_nopci, tpm_remove_hardware).              *)
(*                                                                         *)
(* Spec     : one registered chip, its session threads and one in-kernel   *)
(*            caller of tpm_transmit.                                      *)
(* FairSpec : Spec with the fairness the scheduler and the timer wheel     *)
(*            give (a runnable thread runs, an armed timer fires).         *)
(* SpecReg  : the registry, driven by register and remove calls.          *)
(* SpecFill : the registry filled by registrations alone.                  *)
(* SpecCancel : a session thread, the in-kernel caller and the sysfs       *)
(*            attribute that cancels.                                      *)
(***************************************************************************)
EXTENDS Integers, Sequences, FiniteSets, TLC

(***************************************************************************)
(* Bounds of the model.                                                    *)
(***************************************************************************)
\* longest response the modelled transport's recv produces
MaxResp == 2
\* most chips registered at one time in SpecReg
MaxChips == 3

(***************************************************************************)
(* Program constants.                                                      *)
(***************************************************************************)
TPM_BUFSIZE == 2048
TPM_NUM_DEVICES == 256
BITS_PER_INT == 32
READ_PCR_RESULT_SIZE == 30
ENODATA == 61
E2BIG == 7
ECANCELED == 125
ETIME == 62
EFAULT == 14
EBUSY == 16
ENOMEM == 12
ENODEV == 19
\* the error a failing vendor send or recv reports (any negative value)
EIO == 5

TPM_NUM_MASK_ENTRIES == TPM_NUM_DEVICES \div BITS_PER_INT

(***************************************************************************)
(* Threads.  Users share the one open file of the chip (tpm_open admits a  *)
(* single opener); Kern calls tpm_transmit with a buffer of its own, as    *)
(* tpm_pcr_read, tpm_show_pcrs and tpm_pm_suspend do.                      *)
(***************************************************************************)
Users == {"u1", "u2"}
Kern == {"k1"}
Threads == Users \cup Kern
\* the transports' probe functions calling tpm_register_hardware_nopci
Registrars == {"r1", "r2"}

(***************************************************************************)
(* Buffers.  Of the TPM_BUFSIZE bytes of a buffer the model keeps the      *)
(* first BufWindow: the command header (tag and length field) and every    *)
(* byte a response or a read can touch.                                    *)
(***************************************************************************)
HdrLen == 6
BufWindow == IF 2 * MaxResp + 2 > HdrLen THEN 2 * MaxResp + 2 ELSE HdrLen

\* the furthest byte a modelled read copies out
ReadLimit == 2 * MaxResp

ZeroBuf == [i \in 1..BufWindow |-> 0]

\* a command: tag 0,193, then the four bytes of the length field
MkCmd(b2, b3, b4, b5) ==
    [i \in 1..BufWindow |->
        CASE i = 1 -> 0
          [] i = 2 -> 193
          [] i = 3 -> b2
          [] i = 4 -> b3
          [] i = 5 -> b4
          [] i = 6 -> b5
          [] OTHER -> 0]

\* what a user may hand to write: length fields 0, 10 and 2049
UserCmds == {MkCmd(0, 0, 0, 0), MkCmd(0, 0, 0, 10), MkCmd(0, 0, 8, 1)}
\* sizes a user passes to write: nothing, or more than the buffer holds
WriteSizes == {0, 2049}
\* sizes a user passes to read: one byte, or room for any response
ReadSizes == {1, TPM_BUFSIZE}

\* the command templates of the in-kernel callers and the capacity they pass
pcrread == MkCmd(0, 0, 0, 14)
KernelCalls == {[buf |-> pcrread, bufsiz |-> READ_PCR_RESULT_SIZE]}

\* what kmalloc may leave in a fresh data_buffer
GarbageBufs == {ZeroBuf, MkCmd(0, 0, 0, 10)}

\* the bytes the transport's recv writes for a response of length n
RespByte(i) == 16 + i
RecvInto(buf, n) == [i \in 1..BufWindow |-> IF i <= n THEN RespByte(i) ELSE buf[i]]

(***************************************************************************)
(* Integer helpers.                                                        *)
(***************************************************************************)
RECURSIVE BitAnd(_, _)
BitAnd(a, b) ==
    IF a = 0 \/ b = 0 THEN 0
    ELSE (a % 2) * (b % 2) + 2 * BitAnd(a \div 2, b \div 2)

\* be32_to_cpu(*((__be32 *) (buf + 2))): the most significant byte first
be32_to_cpu(buf) ==
    ((buf[3] * 256 + buf[4]) * 256 + buf[5]) * 256 + buf[6]

\* the vendor's completion test and its cancel value (struct tpm_vendor_specific)
vendor == [req_complete_mask |-> 3, req_complete_val |-> 2, req_canceled |-> 4]
\* the status bytes the transport may report
StatusVals == {0, 2, 4, 6}

VARIABLES
    pc,             \* each thread's position
    rc,             \* each thread's rc / ret_size / out_size
    loc,            \* each thread's locals
    out,            \* the bytes a read copied to its caller
    tx,             \* per transaction: what it did to the transport
    num_opens,      \* chip->num_opens
    file_open,      \* file->private_data == chip
    data_buffer,    \* chip->data_buffer (<<>> when not allocated)
    data_pending,   \* chip->data_pending
    data_position,  \* chip->data_position
    tpm_mutex,      \* chip->tpm_mutex (semaphore count)
    buffer_mutex,   \* chip->buffer_mutex (semaphore count)
    timer_armed,    \* chip->user_read_timer is pending
    hand,           \* history of the hand-off: staged and delivered bytes
    tpm_chip_list,  \* the registry's list, head first
    dev_mask,       \* the device-number bitmap, a set of bits per word
    reg,            \* each registering caller's position and locals
    sysfs_cancel    \* whether tpm_store_cancel has run: "none", "idle" when
                    \* no transaction was in flight, "in_flight"

chipvars == <<num_opens, file_open, data_buffer, data_pending, data_position,
              tpm_mutex, buffer_mutex, timer_armed>>
threadvars == <<pc, rc, loc, out, tx>>
regvars == <<tpm_chip_list, dev_mask, reg>>
vars == <<pc, rc, loc, out, tx, num_opens, file_open, data_buffer, data_pending,
          data_position, tpm_mutex, buffer_mutex, timer_armed, hand,
          tpm_chip_list, dev_mask, reg, sysfs_cancel>>

NoLoc == [caller |-> "none", count |-> 0, in_size |-> 0, ret_size |-> 0,
          position |-> 0, after_expiry |-> FALSE, timer_was |-> FALSE]
NoTx == [sent |-> FALSE, send_ok |-> FALSE, done |-> FALSE, deadline |-> FALSE,
         ncancel |-> 0, nrecv |-> 0]
NoReg == [pc |-> "idle", i |-> 0, j |-> 0, dev_num |-> -1, rc |-> 0, lowest |-> TRUE]
NoHand == [staged |-> <<>>, delivered |-> <<>>, in_order |-> TRUE,
           fresh |-> FALSE, expired |-> FALSE, written |-> FALSE]

Min(a, b) == IF a < b THEN a ELSE b

\* the semaphore operations of the two per-chip mutexes
DownWithoutWaiting(sem) == TRUE
DownOk(sem) == sem > 0
Down(sem) == sem - 1
Up(sem) == sem + 1

\* a thread is inside tpm_read / tpm_write / tpm_transmit
ReadPcs == {"r_position", "r_copy"}
WritePcs == {"w_wait", "w_down", "w_copy", "w_store", "w_timer"}
TransmitPcs == {"t_down", "t_poll"}
\* between down(&chip->tpm_mutex) and up(&chip->tpm_mutex): send has been
\* called and the transaction has not ended
InFlightPcs == {"t_poll"}
InFileOp(t) ==
    \/ pc[t] \in ReadPcs \cup WritePcs
    \/ pc[t] \in TransmitPcs /\ loc[t].caller = "write"
    \/ pc[t] = "done" /\ loc[t].caller \in {"read", "write"}
ReadInFlight == \E u \in Users : pc[u] \in ReadPcs

Init ==
    /\ pc = [t \in Threads |-> "idle"]
    /\ rc = [t \in Threads |-> 0]
    /\ loc = [t \in Threads |-> NoLoc]
    /\ out = [t \in Threads |-> <<>>]
    /\ tx = [t \in Threads |-> NoTx]
    /\ num_opens = 0
    /\ file_open = FALSE
    /\ data_buffer = <<>>
    /\ data_pending = 0
    /\ data_position = 0
    /\ tpm_mutex = 1
    /\ buffer_mutex = 1
    /\ timer_armed = FALSE
    /\ hand = NoHand
    /\ tpm_chip_list = <<>>
    /\ dev_mask = [i \in 0..(BITS_PER_INT - 1) |-> {}]
    /\ reg = [r \in Registrars |-> NoReg]
    /\ sysfs_cancel = "none"

(***************************************************************************)
(* tpm_open and tpm_release.                                               *)
(***************************************************************************)
OpenLockIgnoresBusy(t) ==
    /\ pc[t] = "idle"
    /\ t \in Users
    /\ num_opens' = num_opens + 1
    /\ pc' = [pc EXCEPT ![t] = "o_alloc"]
    /\ loc' = [loc EXCEPT ![t].caller = "open"]
    /\ UNCHANGED <<rc, out, tx, file_open, data_buffer, data_pending, data_position,
                   tpm_mutex, buffer_mutex, timer_armed, hand, regvars, sysfs_cancel>>

\* lines 436-459: under driver_lock, refuse a second opener or count this one
OpenLock(t) ==
    /\ pc[t] = "idle"
    /\ t \in Users
    /\ IF num_opens # 0
       THEN /\ pc' = [pc EXCEPT ![t] = "done"]
            /\ rc' = [rc EXCEPT ![t] = -EBUSY]
            /\ UNCHANGED num_opens
       ELSE /\ num_opens' = num_opens + 1
            /\ pc' = [pc EXCEPT ![t] = "o_alloc"]
            /\ UNCHANGED rc
    /\ loc' = [loc EXCEPT ![t].caller = "open"]
    /\ UNCHANGED <<out, tx, file_open, data_buffer, data_pending, data_position,
                   tpm_mutex, buffer_mutex, timer_armed, hand, regvars, sysfs_cancel>>

\* lines 461-471: allocate the session buffer, clear data_pending
OpenAlloc(t) ==
    /\ pc[t] = "o_alloc"
    /\ \/ /\ num_opens' = num_opens - 1
          /\ rc' = [rc EXCEPT ![t] = -ENOMEM]
          /\ UNCHANGED <<data_buffer, data_pending, file_open, hand>>
       \/ \E g \in GarbageBufs :
          /\ data_buffer' = g
          /\ data_pending' = 0
          /\ file_open' = TRUE
          /\ hand' = NoHand
          /\ rc' = [rc EXCEPT ![t] = 0]
          /\ UNCHANGED num_opens
    /\ pc' = [pc EXCEPT ![t] = "done"]
    /\ UNCHANGED <<loc, out, tx, data_position, tpm_mutex, buffer_mutex,
                   timer_armed, regvars, sysfs_cancel>>

ReleaseLeavesTimer(t) ==
    /\ pc[t] = "idle"
    /\ t \in Users
    /\ file_open
    /\ \A u \in Users : ~InFileOp(u)
    /\ file_open' = FALSE
    /\ num_opens' = num_opens - 1
    /\ data_pending' = 0
    /\ data_buffer' = <<>>
    /\ hand' = NoHand
    /\ UNCHANGED <<threadvars, timer_armed, data_position, tpm_mutex, buffer_mutex,
                   regvars, sysfs_cancel>>

\* lines 480-493; the file layer calls release when no read or write uses the file
Release(t) ==
    /\ pc[t] = "idle"
    /\ t \in Users
    /\ file_open
    /\ \A u \in Users : ~InFileOp(u)
    /\ file_open' = FALSE
    /\ num_opens' = num_opens - 1
    /\ timer_armed' = FALSE
    /\ data_pending' = 0
    /\ data_buffer' = <<>>
    /\ hand' = NoHand
    /\ UNCHANGED <<threadvars, data_position, tpm_mutex, buffer_mutex, regvars, sysfs_cancel>>

(***************************************************************************)
(* user_reader_timeout: the expiry timer's handler, run when the armed     *)
(* timer expires and buffer_mutex can be taken.                            *)
(***************************************************************************)
user_reader_timeout_keeps_pending ==
    /\ timer_armed
    /\ DownOk(buffer_mutex)
    /\ timer_armed' = FALSE
    /\ data_buffer' = ZeroBuf
    /\ hand' = [hand EXCEPT !.expired = hand.fresh \/ hand.expired, !.fresh = FALSE]
    /\ UNCHANGED <<threadvars, num_opens, file_open, data_pending, data_position,
                   tpm_mutex, buffer_mutex, regvars, sysfs_cancel>>

user_reader_timeout ==
    /\ timer_armed
    /\ DownOk(buffer_mutex)
    /\ timer_armed' = FALSE
    /\ data_pending' = 0
    /\ data_buffer' = ZeroBuf
    /\ hand' = [hand EXCEPT !.expired = hand.fresh \/ hand.expired, !.fresh = FALSE]
    /\ UNCHANGED <<threadvars, num_opens, file_open, data_position, tpm_mutex,
                   buffer_mutex, regvars, sysfs_cancel>>

(***************************************************************************)
(* tpm_transmit.                                                           *)
(***************************************************************************)
CheckCountZeroOnly(count, bufsiz) ==
    IF count = 0 THEN -ENODATA ELSE 0

\* lines 109-115: 0 when the encoded length passes, else the error returned
CheckCount(count, bufsiz) ==
    IF count = 0 THEN -ENODATA
    ELSE IF count > bufsiz THEN -E2BIG
    ELSE 0

\* return rc: tpm_write goes on to store the result (with x, the record of
\* what the transaction did to the transport); an in-kernel caller is done
Leave(t, l, r, x) ==
    IF l.caller = "write"
    THEN /\ pc' = [pc EXCEPT ![t] = "w_store"]
         /\ rc' = [rc EXCEPT ![t] = r]
         /\ tx' = [tx EXCEPT ![t] = x]
         /\ loc' = [loc EXCEPT ![t] = l]
    ELSE /\ pc' = [pc EXCEPT ![t] = "idle"]
         /\ rc' = [rc EXCEPT ![t] = 0]
         /\ tx' = [tx EXCEPT ![t] = NoTx]
         /\ loc' = [loc EXCEPT ![t] = NoLoc]

\* lines 107-120: the entry of tpm_transmit(chip, buf, bufsiz): decode the
\* length field, return at once when it fails the checks; l are the caller's
\* locals
TransmitEnter(t, l, buf, bufsiz) ==
    LET count == be32_to_cpu(buf)
        e == CheckCount(count, bufsiz)
        lc == [l EXCEPT !.count = count]
    IN  IF e # 0
        THEN Leave(t, lc, e, NoTx)
        ELSE /\ pc' = [pc EXCEPT ![t] = "t_down"]
             /\ loc' = [loc EXCEPT ![t] = lc]
             /\ UNCHANGED <<rc, tx>>

TransmitOutCancelReturns(sem, path) == IF path = "canceled" THEN sem ELSE Up(sem)

\* lines 162-163, the label out every path after down comes to:
\* up(&chip->tpm_mutex); path names the way there
TransmitOut(sem, path) == Up(sem)

\* lines 122-128: down(&chip->tpm_mutex), then chip->vendor->send; a negative
\* result goes to out
TransmitSend(t) ==
    /\ pc[t] = "t_down"
    /\ DownOk(tpm_mutex)
    /\ \E ok \in BOOLEAN :
       IF ok
       THEN /\ tpm_mutex' = Down(tpm_mutex)
            /\ pc' = [pc EXCEPT ![t] = "t_poll"]
            /\ tx' = [tx EXCEPT ![t].sent = TRUE, ![t].send_ok = TRUE]
            /\ UNCHANGED <<rc, loc>>
       ELSE /\ tpm_mutex' = TransmitOut(Down(tpm_mutex), "send")
            /\ Leave(t, loc[t], -EIO, [tx[t] EXCEPT !.sent = TRUE])
    /\ UNCHANGED <<out, num_opens, file_open, data_buffer, data_pending,
                   data_position, buffer_mutex, timer_armed, hand, regvars, sysfs_cancel>>

\* lines 133-134: the completion test
Completed(status) ==
    BitAnd(status, vendor.req_complete_mask) = vendor.req_complete_val

\* what recv may return: an error or a length
RecvResults == {-EIO} \cup (0..MaxResp)

CancelForgotten(x) == [x EXCEPT !.deadline = TRUE]

\* lines 150-153: the deadline passed: chip->vendor->cancel; x records it
Cancel(x) == [x EXCEPT !.deadline = TRUE, !.ncancel = @ + 1]

\* lines 131-164: one round of the poll loop and what it leads to; before is
\* time_before(jiffies, stop) after the sleep, r what recv returns
TransmitPoll(t) ==
    /\ pc[t] = "t_poll"
    /\ \E status \in StatusVals :
       IF Completed(status)
       THEN \* lines 155-160: recv into the buffer, then data_position = 0
            \E r \in RecvResults :
            /\ IF r > 0 /\ loc[t].caller = "write"
               THEN data_buffer' = RecvInto(data_buffer, r)
               ELSE UNCHANGED data_buffer
            /\ data_position' = 0
            /\ tpm_mutex' = TransmitOut(tpm_mutex, "recv")
            /\ Leave(t, loc[t], r, [tx[t] EXCEPT !.done = TRUE, !.nrecv = @ + 1])
       ELSE IF status = vendor.req_canceled
       THEN /\ tpm_mutex' = TransmitOut(tpm_mutex, "canceled")
            /\ Leave(t, loc[t], -ECANCELED, [tx[t] EXCEPT !.done = TRUE])
            /\ UNCHANGED <<data_buffer, data_position>>
       ELSE \E before \in BOOLEAN :
            IF before
            THEN UNCHANGED <<pc, rc, tx, loc, tpm_mutex, data_buffer, data_position>>
            ELSE /\ tpm_mutex' = TransmitOut(tpm_mutex, "timeout")
                 /\ Leave(t, loc[t], -ETIME, Cancel(tx[t]))
                 /\ UNCHANGED <<data_buffer, data_position>>
    /\ UNCHANGED <<out, num_opens, file_open, data_pending, buffer_mutex,
                   timer_armed, hand, regvars, sysfs_cancel>>

\* an in-kernel caller (tpm_pcr_read, lines 245-248) with a buffer of its own
KernelCall(t) ==
    /\ pc[t] = "idle"
    /\ t \in Kern
    /\ \E c \in KernelCalls :
       TransmitEnter(t, [loc[t] EXCEPT !.caller = "kernel"], c.buf, c.bufsiz)
    /\ UNCHANGED <<out, chipvars, hand, regvars, sysfs_cancel>>

(***************************************************************************)
(* tpm_write.                                                              *)
(***************************************************************************)
WriteCall(t) ==
    /\ pc[t] = "idle"
    /\ t \in Users
    /\ file_open
    /\ loc' = [loc EXCEPT ![t].caller = "write"]
    /\ pc' = [pc EXCEPT ![t] = "w_wait"]
    /\ UNCHANGED <<rc, out, tx, chipvars, hand, regvars, sysfs_cancel>>

\* lines 505-506: leave the loop once data_pending reads 0
WriteWait(t) ==
    /\ pc[t] = "w_wait"
    /\ data_pending = 0
    /\ pc' = [pc EXCEPT ![t] = "w_down"]
    /\ UNCHANGED <<rc, loc, out, tx, chipvars, hand, regvars, sysfs_cancel>>

\* line 508: down(&chip->buffer_mutex)
WriteDown(t) ==
    /\ pc[t] = "w_down"
    /\ DownOk(buffer_mutex)
    /\ buffer_mutex' = Down(buffer_mutex)
    /\ pc' = [pc EXCEPT ![t] = "w_copy"]
    /\ UNCHANGED <<rc, loc, out, tx, num_opens, file_open, data_buffer,
                   data_pending, data_position, tpm_mutex, timer_armed, hand, regvars, sysfs_cancel>>

\* copy_from_user of the first n bytes of a caller's buffer
CopyIn(buf, cmd, n) == [i \in 1..BufWindow |-> IF i <= n THEN cmd[i] ELSE buf[i]]

\* lines 510-520: truncate, copy in, call tpm_transmit on the session buffer
WriteCopy(t) ==
    /\ pc[t] = "w_copy"
    /\ \E fault \in BOOLEAN :
       IF fault
       THEN /\ buffer_mutex' = Up(buffer_mutex)
            /\ rc' = [rc EXCEPT ![t] = -EFAULT]
            /\ pc' = [pc EXCEPT ![t] = "done"]
            /\ UNCHANGED <<loc, tx, data_buffer, hand>>
       ELSE \E size \in WriteSizes, cmd \in UserCmds :
            LET in_size == Min(size, TPM_BUFSIZE)
                copied == CopyIn(data_buffer, cmd, in_size)
            IN  /\ data_buffer' = copied
                /\ TransmitEnter(t, [loc[t] EXCEPT !.in_size = in_size], copied,
                                 TPM_BUFSIZE)
                /\ hand' = [hand EXCEPT !.expired = FALSE]
                /\ UNCHANGED buffer_mutex
    /\ UNCHANGED <<out, num_opens, file_open, data_pending, data_position,
                   tpm_mutex, timer_armed, regvars, sysfs_cancel>>

\* lines 522-523: data_pending = out_size; up(&chip->buffer_mutex)
WriteStore(t) ==
    /\ pc[t] = "w_store"
    /\ data_pending' = rc[t]
    /\ buffer_mutex' = Up(buffer_mutex)
    /\ hand' = [staged |-> IF rc[t] > 0 THEN SubSeq(data_buffer, 1, rc[t]) ELSE <<>>,
                delivered |-> <<>>,
                in_order |-> TRUE,
                fresh |-> ~ReadInFlight,
                expired |-> FALSE,
                written |-> TRUE]
    /\ rc' = [rc EXCEPT ![t] = 0]
    /\ tx' = [tx EXCEPT ![t] = NoTx]
    /\ pc' = [pc EXCEPT ![t] = "w_timer"]
    /\ UNCHANGED <<loc, out, num_opens, file_open, data_buffer, data_position,
                   tpm_mutex, timer_armed, regvars, sysfs_cancel>>

\* lines 526-528: mod_timer(&chip->user_read_timer, ...); return in_size
WriteTimer(t) ==
    /\ pc[t] = "w_timer"
    /\ timer_armed' = TRUE
    /\ rc' = [rc EXCEPT ![t] = loc[t].in_size]
    /\ pc' = [pc EXCEPT ![t] = "done"]
    /\ UNCHANGED <<loc, out, tx, num_opens, file_open, data_buffer, data_pending,
                   data_position, tpm_mutex, buffer_mutex, hand, regvars, sysfs_cancel>>

(***************************************************************************)
(* tpm_read.                                                               *)
(***************************************************************************)
\* lines 539-546: del_singleshot_timer_sync; ret_size = data_pending; when
\* there is nothing to relay return it, else clip it to the caller's size
ReadCall(t) ==
    /\ pc[t] = "idle"
    /\ t \in Users
    /\ file_open
    /\ timer_armed' = FALSE
    /\ hand' = [hand EXCEPT !.fresh = FALSE, !.expired = FALSE]
    /\ \E size \in ReadSizes :
       IF data_pending > 0
       THEN /\ loc' = [loc EXCEPT ![t].caller = "read",
                                  ![t].ret_size = Min(size, data_pending),
                                  ![t].after_expiry = hand.expired,
                                  ![t].timer_was = timer_armed]
            /\ pc' = [pc EXCEPT ![t] = "r_position"]
            /\ UNCHANGED rc
       ELSE /\ loc' = [loc EXCEPT ![t].caller = "read",
                                  ![t].after_expiry = hand.expired]
            /\ rc' = [rc EXCEPT ![t] = data_pending]
            /\ pc' = [pc EXCEPT ![t] = "done"]
    /\ UNCHANGED <<out, tx, num_opens, file_open, data_buffer, data_pending,
                   data_position, tpm_mutex, buffer_mutex, regvars, sysfs_cancel>>

\* line 543: position = data_position
ReadPosition(t) ==
    /\ pc[t] = "r_position"
    /\ loc' = [loc EXCEPT ![t].position = data_position]
    /\ pc' = [pc EXCEPT ![t] = "r_copy"]
    /\ UNCHANGED <<rc, out, tx, chipvars, hand, regvars, sysfs_cancel>>

\* &chip->data_buffer[position] .. + n
ReadBytes(buf, position, n) == [k \in 1..n |-> buf[position + k]]

IsPrefix(a, b) == Len(a) <= Len(b) /\ a = SubSeq(b, 1, Len(a))

\* the record of what the reads since the last staging delivered: the bytes,
\* as long as they are the staged response's bytes in order
Deliver(h, bytes) ==
    IF h.in_order /\ IsPrefix(h.delivered \o bytes, h.staged)
    THEN [h EXCEPT !.delivered = @ \o bytes]
    ELSE [h EXCEPT !.delivered = <<>>, !.in_order = FALSE]

\* lines 548-564, all under buffer_mutex: copy out, take the bytes off
\* data_pending, advance data_position
ReadCopy(t) ==
    /\ pc[t] = "r_copy"
    /\ DownOk(buffer_mutex)
    /\ \E fault \in BOOLEAN :
       \* a copy that would end beyond ReadLimit is followed no further
       /\ (loc[t].position + loc[t].ret_size > ReadLimit) => fault
       /\ IF fault
          THEN /\ rc' = [rc EXCEPT ![t] = -EFAULT]
               /\ UNCHANGED <<out, data_pending, data_position, hand>>
          ELSE LET bytes == ReadBytes(data_buffer, loc[t].position, loc[t].ret_size)
               IN  /\ out' = [out EXCEPT ![t] = bytes]
                   /\ data_pending' = data_pending - loc[t].ret_size
                   /\ data_position' = loc[t].position + loc[t].ret_size
                   /\ hand' = Deliver(hand, bytes)
                   /\ rc' = [rc EXCEPT ![t] = loc[t].ret_size]
    /\ pc' = [pc EXCEPT ![t] = "done"]
    /\ UNCHANGED <<loc, tx, num_opens, file_open, data_buffer, tpm_mutex,
                   buffer_mutex, timer_armed, regvars, sysfs_cancel>>

\* the call returns to its caller
Return(t) ==
    /\ pc[t] = "done"
    /\ pc' = [pc EXCEPT ![t] = "idle"]
    /\ rc' = [rc EXCEPT ![t] = 0]
    /\ loc' = [loc EXCEPT ![t] = NoLoc]
    /\ out' = [out EXCEPT ![t] = <<>>]
    /\ tx' = [tx EXCEPT ![t] = NoTx]
    /\ UNCHANGED <<chipvars, hand, regvars, sysfs_cancel>>

\* a step of thread t
Step(t) ==
    \/ OpenLock(t) \/ OpenAlloc(t) \/ Release(t)
    \/ KernelCall(t)
    \/ TransmitSend(t) \/ TransmitPoll(t)
    \/ WriteCall(t) \/ WriteWait(t) \/ WriteDown(t) \/ WriteCopy(t)
    \/ WriteStore(t) \/ WriteTimer(t)
    \/ ReadCall(t) \/ ReadPosition(t) \/ ReadCopy(t)
    \/ Return(t)

Next ==
    \/ \E t \in Threads : Step(t)
    \/ user_reader_timeout

Spec == Init /\ [][Next]_vars

(***************************************************************************)
(* SpecCancel: one session thread, the in-kernel caller, and the sysfs     *)
(* attribute "cancel" (tpm_store_cancel), which any writer of the          *)
(* attribute runs at any time.                                             *)
(***************************************************************************)
CancelThreads == {"u1"} \cup Kern

\* lines 415-424: chip->vendor->cancel(chip), no lock taken
tpm_store_cancel ==
    /\ sysfs_cancel' =
          IF \E t \in Threads : pc[t] \in InFlightPcs
          THEN "in_flight"
          ELSE IF sysfs_cancel = "none" THEN "idle" ELSE sysfs_cancel
    /\ UNCHANGED <<threadvars, chipvars, hand, regvars>>

NextCancel ==
    \/ \E t \in CancelThreads : Step(t)
    \/ user_reader_timeout
    \/ tpm_store_cancel

SpecCancel == Init /\ [][NextCancel]_vars

(***************************************************************************)
(* The registry: tpm_register_hardware_nopci and tpm_remove_hardware.      *)
(* A word of dev_mask is the set of its bits that are 1.                   *)
(***************************************************************************)
\* 1 << j
Shl1(j) == {j}
\* a & b, a | b
And(a, b) == a \cap b
Or(a, b) == a \cup b
\* !a: 1 when a is 0, else 0
LogicalNot(a) == IF a = {} THEN {0} ELSE {}

\* line 592 and line 705: !(1 << j), the mask the code clears a bit with
ClearMask(j) == LogicalNot(Shl1(j))

FreeBitsOneShort(mask) ==
    {p \in (0..(TPM_NUM_MASK_ENTRIES - 1)) \X (0..(BITS_PER_INT - 2)) :
        And(mask[p[1]], Shl1(p[2])) = {}}

\* lines 672-674: the pairs (i, j) the scan finds clear
FreeBits(mask) ==
    {p \in (0..(TPM_NUM_MASK_ENTRIES - 1)) \X (0..(BITS_PER_INT - 1)) :
        And(mask[p[1]], Shl1(p[2])) = {}}

\* the first of them in the order of the two loops
FirstFree(mask) ==
    CHOOSE p \in FreeBits(mask) :
        \A q \in FreeBits(mask) :
            p[1] < q[1] \/ (p[1] = q[1] /\ p[2] <= q[2])

\* line 676: the device number of bit j of word i
DevNum(i, j) == i * TPM_NUM_MASK_ENTRIES + j

\* chips registered or being registered
Registering == {r \in Registrars : reg[r].pc # "idle"}

\* the device numbers of the chips on the list and of the chips whose
\* registration has taken a number
Owned ==
    {tpm_chip_list[k] : k \in 1..Len(tpm_chip_list)}
        \cup {reg[q].dev_num : q \in {x \in Registrars : reg[x].pc = "taken"}}

\* the lowest device number no chip owns (TPM_NUM_DEVICES when all are owned)
LowestUnowned ==
    CHOOSE n \in 0..TPM_NUM_DEVICES :
        /\ n \notin Owned
        /\ \A m \in 0..(n - 1) : m \in Owned

\* lines 670-674 and 681-685: chip->dev_num = -1, then the scan for a clear
\* bit; with none found the call returns -ENODEV
Scan(r) ==
    /\ reg[r].pc = "idle"
    /\ IF FreeBits(dev_mask) = {}
       THEN reg' = [reg EXCEPT ![r].rc = -ENODEV]
       ELSE LET p == FirstFree(dev_mask) IN
            reg' = [reg EXCEPT ![r] = [pc |-> "found", i |-> p[1], j |-> p[2],
                                       dev_num |-> -1, rc |-> 0,
                                       lowest |-> DevNum(p[1], p[2]) = LowestUnowned]]
    /\ UNCHANGED <<threadvars, chipvars, hand, tpm_chip_list, dev_mask, sysfs_cancel>>

\* a registration begins while fewer than MaxChips chips exist
RegScan(r) ==
    /\ Len(tpm_chip_list) + Cardinality(Registering) < MaxChips
    /\ Scan(r)

\* lines 675-678: take the number and set the bit
RegTake(r) ==
    /\ reg[r].pc = "found"
    /\ reg' = [reg EXCEPT ![r].dev_num = DevNum(reg[r].i, reg[r].j),
                          ![r].pc = "taken"]
    /\ dev_mask' = [dev_mask EXCEPT ![reg[r].i] = Or(@, Shl1(reg[r].j))]
    /\ UNCHANGED <<threadvars, chipvars, hand, tpm_chip_list, sysfs_cancel>>

\* lines 698-720: misc_register returned ok; on failure undo the bit and
\* return -ENODEV, else list_add(&chip->list, &tpm_chip_list) under
\* driver_lock and return 0
Add(r, ok) ==
    /\ reg[r].pc = "taken"
    /\ IF ok
       THEN /\ tpm_chip_list' = <<reg[r].dev_num>> \o tpm_chip_list
            /\ UNCHANGED dev_mask
            /\ reg' = [reg EXCEPT ![r] = NoReg]
       ELSE /\ dev_mask' = [dev_mask EXCEPT ![reg[r].i] = And(@, ClearMask(reg[r].j))]
            /\ UNCHANGED tpm_chip_list
            /\ reg' = [reg EXCEPT ![r] = [NoReg EXCEPT !.rc = -ENODEV]]
    /\ UNCHANGED <<threadvars, chipvars, hand, sysfs_cancel>>

\* misc_register succeeds or fails
RegAdd(r) == \E ok \in BOOLEAN : Add(r, ok)

\* the list without its k-th entry
ListDel(list, k) == SubSeq(list, 1, k - 1) \o SubSeq(list, k + 1, Len(list))

\* lines 579-594: list_del(&chip->list) under driver_lock, then the bitmap
\* update, for the k-th chip of the list
Remove(k) ==
    /\ k \in 1..Len(tpm_chip_list)
    /\ LET dev_num == tpm_chip_list[k] IN
       dev_mask' = [dev_mask EXCEPT ![dev_num \div TPM_NUM_MASK_ENTRIES] =
                        And(@, ClearMask(dev_num % TPM_NUM_MASK_ENTRIES))]
    /\ tpm_chip_list' = ListDel(tpm_chip_list, k)
    /\ UNCHANGED <<threadvars, chipvars, hand, reg, sysfs_cancel>>

NextReg ==
    \/ \E r \in Registrars : RegScan(r) \/ RegTake(r) \/ RegAdd(r)
    \/ \E k \in 1..MaxChips : Remove(k)

SpecReg == Init /\ [][NextReg]_vars

(***************************************************************************)
(* SpecFill: one caller registers chip after chip, none is removed and     *)
(* misc_register never fails, until the bitmap is full.                    *)
(***************************************************************************)
Filler == "r1"
RegAddOk(r) == Add(r, TRUE)

NextFill == Scan(Filler) \/ RegTake(Filler) \/ RegAddOk(Filler)

SpecFill == Init /\ [][NextFill]_vars

\* the bits of a word that is all ones
FullWord == 0..(BITS_PER_INT - 1)

(***************************************************************************)
(* tpm_chip_lookup: the index in tpm_chip_list of the chip found, 0 for    *)
(* NULL.  The list is kept head first.                                     *)
(***************************************************************************)
TPM_ANY_NUM == 65535
Matches(list, chip_num) ==
    {k \in 1..Len(list) : list[k] = chip_num \/ chip_num = TPM_ANY_NUM}
tpm_chip_lookup(list, chip_num) ==
    IF Matches(list, chip_num) = {}
    THEN 0
    ELSE CHOOSE k \in Matches(list, chip_num) :
             \A m \in Matches(list, chip_num) : k <= m

(***************************************************************************)
(* FairSpec: the scheduler runs every thread that is inside a call and can *)
(* take its next step, and an armed timer expires.  Whether a caller       *)
(* issues a new call is up to the caller.                                  *)
(***************************************************************************)
Progress(t) ==
    \/ OpenAlloc(t)
    \/ TransmitSend(t) \/ TransmitPoll(t)
    \/ WriteWait(t) \/ WriteDown(t) \/ WriteCopy(t) \/ WriteStore(t) \/ WriteTimer(t)
    \/ ReadPosition(t) \/ ReadCopy(t)
    \/ Return(t)

FairSpec ==
    /\ Init
    /\ [][Next]_vars
    /\ WF_vars(user_reader_timeout)
    /\ \A t \in Threads : WF_vars(Progress(t))

(***************************************************************************)
(* Properties.                                                             *)
(***************************************************************************)
InFlight == {t \in Threads : pc[t] \in InFlightPcs}
\* tpm_transmit has returned rc[t] to tpm_write, which has not yet stored it
Returned(t) == pc[t] = "w_store"
\* the capacity argument of the transmit thread t is in
Capacity(t) == IF loc[t].caller = "write" THEN TPM_BUFSIZE ELSE READ_PCR_RESULT_SIZE

\* C1: at most one thread at a time is between the vendor send call and the
\* end of its transaction on the chip
C1_OneInFlight == Cardinality(InFlight) <= 1

\* a transaction is in flight while another caller waits for the lock
C1_Witness == \E t, u \in Threads : pc[t] = "t_poll" /\ pc[u] = "t_down"

\* C2: the transaction lock is held exactly while a transaction is in flight;
\* a transmit that has returned, on whichever path, does not hold it
C2_LockFreeAfterReturn == tpm_mutex = 1 - Cardinality(InFlight)

\* a transmit has returned the cancel error to tpm_write and the lock is free
C2_Witness ==
    \E t \in Users : Returned(t) /\ rc[t] = -ECANCELED /\ tpm_mutex = 1

\* C3: a transmit whose send succeeded and whose polls saw neither
\* completion nor cancellation returns, the deadline passed, -ETIME after
\* exactly one vendor cancel and no recv; before that it cancels nothing
C3_TimeoutCancelsOnce ==
    \A t \in Users :
        /\ pc[t] = "t_poll" => tx[t].ncancel = 0 /\ tx[t].nrecv = 0
        /\ (Returned(t) /\ tx[t].send_ok /\ ~tx[t].done) =>
              /\ tx[t].deadline
              /\ tx[t].ncancel = 1
              /\ tx[t].nrecv = 0
              /\ rc[t] = -ETIME

C3_Witness == \E t \in Users : Returned(t) /\ tx[t].deadline /\ rc[t] = -ETIME

\* C4: a command whose length field decodes to 0 gets -ENODATA, one whose
\* length exceeds the capacity gets -E2BIG, and neither reaches the lock or
\* any vendor operation
C4_LengthChecks ==
    \A t \in Threads :
        /\ pc[t] \in TransmitPcs => loc[t].count \in 1..Capacity(t)
        /\ (Returned(t) /\ loc[t].count = 0) => rc[t] = -ENODATA /\ tx[t] = NoTx
        /\ (Returned(t) /\ loc[t].count > Capacity(t)) =>
              rc[t] = -E2BIG /\ tx[t] = NoTx

C4_Witness == \E t \in Users : Returned(t) /\ loc[t].count > TPM_BUFSIZE /\ rc[t] = -E2BIG

\* C5: the reads after a write deliver the staged response's bytes in order,
\* each byte once
C5_ReadsInOrder == hand.in_order

\* C6: once the expiry timer has fired on a staged result that no read was
\* issued for, data_pending is 0 and the buffer is cleared, and the next read
\* returns zero bytes
C6_ExpiryDiscards ==
    /\ hand.expired => data_pending = 0 /\ data_buffer = ZeroBuf
    /\ \A t \in Users :
          (pc[t] = "done" /\ loc[t].caller = "read" /\ loc[t].after_expiry) =>
              rc[t] = 0 /\ out[t] = <<>>

\* a read issued after a response of positive length expired
C6_Witness ==
    \E t \in Users :
        /\ pc[t] = "done" /\ loc[t].caller = "read" /\ loc[t].after_expiry
        /\ hand.staged # <<>>

\* C7: a write waiting for data_pending to become 0 eventually leaves the loop
C7_WriteEventuallyAccepted ==
    \A t \in Users : (pc[t] = "w_wait") ~> (pc[t] # "w_wait")

\* C8: 0 <= cursor <= cursor + pending <= buffer capacity
C8_CursorInvariant ==
    /\ 0 <= data_position
    /\ data_position <= data_position + data_pending
    /\ data_position + data_pending <= TPM_BUFSIZE

\* C9: a write that holds the buffer, from the copy of the caller's bytes to
\* the storing of transmit's result, found no result pending
C9_NoWriteOverPending ==
    \A t \in Users :
        (loc[t].caller = "write" /\ pc[t] \in {"w_copy", "t_down", "t_poll", "w_store"})
            => data_pending = 0

\* C10: no two registered chips have the same device number, and every
\* device number is in the allocator's range
C10_UniqueDevNums ==
    /\ \A a, b \in 1..Len(tpm_chip_list) :
          a # b => tpm_chip_list[a] # tpm_chip_list[b]
    /\ \A a \in 1..Len(tpm_chip_list) :
          tpm_chip_list[a] \in 0..(TPM_NUM_DEVICES - 1)

\* C11: the device number a registration's scan finds is the lowest number
\* that no live chip owns
C11_LowestFreeNumber ==
    \A r \in Registrars : reg[r].pc \in {"found", "taken"} => reg[r].lowest

\* C12: filling an empty registry, a registration fails with -ENODEV only
\* when TPM_NUM_DEVICES chips are registered, the 257th call, and then the
\* list still holds the 256 chips and every scanned bit is still set
C12_FillThenNoNumber ==
    /\ Len(tpm_chip_list) <= TPM_NUM_DEVICES
    /\ reg[Filler].rc = -ENODEV =>
          /\ Len(tpm_chip_list) = TPM_NUM_DEVICES
          /\ \A i \in 0..(TPM_NUM_MASK_ENTRIES - 1) : dev_mask[i] = FullWord
          /\ reg[Filler].pc = "idle"

\* the 257th registration has failed
C12_Witness ==
    reg[Filler].rc = -ENODEV /\ Len(tpm_chip_list) = TPM_NUM_DEVICES

\* C13: with no registration under way, a bit of the bitmap is set if and
\* only if a chip of the registry owns the bit's device number
C13_BitmapMatchesRegistry ==
    Registering = {} =>
        \A i \in 0..(TPM_NUM_MASK_ENTRIES - 1), j \in 0..(BITS_PER_INT - 1) :
            (j \in dev_mask[i]) <=>
                (\E k \in 1..Len(tpm_chip_list) : tpm_chip_list[k] = DevNum(i, j))

\* C17: the wildcard lookup finds nothing exactly when the registry is
\* empty and else the earliest-registered chip, the last of the list; a
\* lookup by number finds a chip with that number or, when there is none,
\* nothing
C17_LookupFindsFirstRegistered ==
    /\ tpm_chip_lookup(tpm_chip_list, TPM_ANY_NUM) = 0 <=> tpm_chip_list = <<>>
    /\ tpm_chip_list # <<>> =>
          tpm_chip_lookup(tpm_chip_list, TPM_ANY_NUM) = Len(tpm_chip_list)
    /\ \A n \in 0..(TPM_NUM_DEVICES - 1) :
          LET k == tpm_chip_lookup(tpm_chip_list, n) IN
          IF \E m \in 1..Len(tpm_chip_list) : tpm_chip_list[m] = n
          THEN k # 0 /\ tpm_chip_list[k] = n
          ELSE k = 0

\* C14: the open-count is 0 or 1; an open that finds it 1 returns -EBUSY and
\* changes nothing of the chip; an open that succeeds leaves it 1 with
\* data_pending 0; a release leaves it 0
C14_SingleOpen ==
    /\ [](num_opens \in {0, 1})
    /\ [][\A t \in Users :
            /\ (pc[t] = "idle" /\ pc'[t] \in {"o_alloc", "done"}
                    /\ loc'[t].caller = "open") =>
                  IF num_opens = 1
                  THEN /\ pc'[t] = "done" /\ rc'[t] = -EBUSY
                       /\ UNCHANGED <<chipvars, hand>>
                  ELSE pc'[t] = "o_alloc" /\ num_opens' = 1
            /\ (pc[t] = "o_alloc" /\ pc'[t] = "done" /\ rc'[t] = 0) =>
                  num_opens' = 1 /\ data_pending' = 0 /\ file_open'
            /\ (file_open /\ ~file_open') => num_opens' = 0
         ]_vars

\* an open was refused with -EBUSY while another holds the chip open
C14_Witness ==
    \E t \in Users :
        /\ pc[t] = "done" /\ loc[t].caller = "open" /\ rc[t] = -EBUSY
        /\ file_open /\ num_opens = 1

\* C15: vendor cancel is invoked by nothing but tpm_transmit's timeout path
C15_OnlyTransmitCancels == sysfs_cancel = "none"

\* C16: a read whose copy_to_user faulted has left the expiry timer as it
\* found it: armed, if it was armed when the read was called
C16_FaultLeavesStateUnchanged ==
    \A t \in Users :
        (pc[t] = "done" /\ loc[t].caller = "read" /\ rc[t] = -EFAULT
                /\ loc[t].timer_was) => timer_armed

\* C18: while a response of length L is staged, reads take data_pending
\* from L down to 0 and never below
C18_ReadsAtomic ==
    hand.staged # <<>> => data_pending \in 0..Len(hand.staged)

\* C19: the return of a tpm_transmit called by an in-kernel consumer leaves
\* data_pending, data_position and the session buffer as they were
C19_KernelTransmitFrame ==
    [][\A t \in Kern :
          (pc[t] \in TransmitPcs /\ pc'[t] = "idle") =>
              UNCHANGED <<data_pending, data_position, data_buffer>>]_vars

\* C20: in a session in which no write has stored a result yet, whatever the
\* sessions before it staged, data_pending is 0, the expiry timer is not
\* armed, no read relays bytes and every read returns 0
C20_NothingCrossesSessions ==
    (file_open /\ ~hand.written) =>
        /\ data_pending = 0
        /\ ~timer_armed
        /\ \A t \in Users :
              /\ pc[t] \notin ReadPcs
              /\ (pc[t] = "done" /\ loc[t].caller = "read") =>
                    rc[t] = 0 /\ out[t] = <<>>

\* a read has returned in a new session, before any write in it, after a
\* session in which part of a staged response was read
C20_Witness ==
    /\ file_open /\ ~hand.written /\ data_position > 0
    /\ \E t \in Users : pc[t] = "done" /\ loc[t].caller = "read"

====
